---- MODULE Spec2Model ----
(***************************************************************************)
(* Model of change_blocktime.py: the proposal lifecycle orchestrator       *)
(* (main and the functions it calls) and the monitor loop                  *)
(* (monitor_proposal).                                                     *)
(*                                                                         *)
(* External inputs are drawn nondeterministically at each step: the result *)
(* of every CLI process (exception / exit status / stdout shape) and the   *)
(* text typed at every prompt.  Environment assumptions: every prompt is   *)
(* answered (no end-of-input), chain heights reported by the node are      *)
(* non-negative, and the interrupt signal (Ctrl+C) is modelled while the   *)
(* monitor loop runs.                                                      *)
(*                                                                         *)
(* Five specifications share the variables:                                *)
(*   Spec         the whole run of main; the monitor loop is entered with  *)
(*                the arguments main passes and is summarised by its exits *)
(*   MonitorSpec  the monitor loop step by step, one action per external   *)
(*                call, started from the states main can enter it in       *)
(*   PlanSpec     main from the height read to the written proposal, for   *)
(*                a wider range of heights                                 *)
(*   CallSpec     run_command and get_proposal_status applied once to      *)
(*                every input, in the states the monitor loop starts in    *)
(*   HeightSpec   the two places a height is read and used: main from its  *)
(*                height read to the plan, and the monitor loop            *)
(***************************************************************************)
EXTENDS Integers, Sequences, FiniteSets, TLC

(***************************************************************************)
(* Bounds of the model                                                     *)
(***************************************************************************)
MaxChainHeight == 1   \* heights the node reports to main are 0..MaxChainHeight
MaxBalance == 1       \* token amounts in a balance response are 0..MaxBalance
MaxEntry == 1         \* block counts typed at a prompt are 0..MaxEntry
HeightBelow == 2      \* monitor heights start HeightBelow under the trigger
HeightAbove == 1      \* ... and end HeightAbove over it
IdleCap == 2          \* uncounted post-trigger iterations are counted up to here
MaxCalmPolls == 3     \* calm polls are counted up to here
MaxPlanHeight == 2    \* the planner is given heights 1..MaxPlanHeight and 1000

(***************************************************************************)
(* Program constants                                                       *)
(***************************************************************************)
DEFAULT_CONFIG ==
    [vote_duration_blocks |-> 40, trigger_buffer |-> 10,
     block_num_buffer |-> 5, min_vote_percent |-> 51]
DEFAULT_ADDRESS == "TeyyPLpp9L7QAcxHangtcHTu7HUZ6iydY"
max_checks_after_trigger == 20

\* Python's None for a string-valued variable, and for last_height
NoneStr == "None"
NoHeight == 0 - 1

Min(a, b) == IF a < b THEN a ELSE b

(***************************************************************************)
(* The command gateway.  A process result is                               *)
(*   [exc, returncode, stdout]; stdout is a record whose kind field names  *)
(* the shape of the text ("empty", "blank" = whitespace only, ...).        *)
(***************************************************************************)
None == [kind |-> "None"]
EmptyOut == [kind |-> "empty"]
BlankOut == [kind |-> "blank"]

\* str.strip(): whitespace-only text becomes the empty string
strip(s) == IF s.kind = "blank" THEN EmptyOut ELSE s

\* truth value of a run_command result: None and "" are falsy
Truthy(out) == out.kind \notin {"None", "empty"}

\* as run_command, but the exit status is not looked at
run_command_ignores_returncode(p) ==
    IF p.exc THEN None
    ELSE strip(p.stdout)

run_command(p) ==
    IF p.exc THEN None
    ELSE IF p.returncode # 0 THEN None
    ELSE strip(p.stdout)

\* every result a process can have, given the texts S it can print
Procs(S) ==
    {[exc |-> TRUE, returncode |-> 0, stdout |-> EmptyOut]}
    \cup {[exc |-> FALSE, returncode |-> c, stdout |-> s] :
             c \in {0, 1}, s \in S \cup {EmptyOut, BlankOut}}

(***************************************************************************)
(* Text typed at prompts                                                   *)
(***************************************************************************)
\* raw answers to a yes/no prompt, and input().strip().lower() of them
YesNoRaw == {"", "y", " Y ", "n", "No"}
StripLower(s) ==
    CASE s = " Y " -> "y"
      [] s = "No" -> "no"
      [] OTHER -> s

\* answers to a numeric prompt after strip(): empty, a digit string with its
\* value, or any other text ("-5", "1.5", "abc")
NoEntry == [kind |-> "empty", val |-> 0]
JunkEntry == [kind |-> "junk", val |-> 0]
Digits(S) == {[kind |-> "digits", val |-> n] : n \in S}
BlockEntries == {NoEntry, JunkEntry} \cup Digits(0..MaxEntry)
PercentEntries == {NoEntry, JunkEntry} \cup Digits({0, 1, 100, 101})
AmountEntries == {NoEntry, JunkEntry} \cup Digits(0..(MaxBalance + 1))
isdigit(e) == e.kind = "digits"

(***************************************************************************)
(* State                                                                   *)
(***************************************************************************)
VARIABLES
    interactive,          \* args.interactive
    verbose,              \* args.verbose
    arg_address,          \* args.address ("" when not given)
    stage,                \* last stage of main that completed
    cli_ok,               \* check_xchain_cli has returned True
    exit_status,          \* process exit status; -1 while running
    abort_cause,          \* why main exited early ("" if it did not)
    address,              \* proposer_address
    initialized,          \* result of check_governance_initialized
    current_height,       \* main's current_height
    config,               \* ProposalConfig returned by get_config_from_user
    stop_vote_height,     \* \
    trigger_height,       \*  > the plan in config_params
    block_num_height,     \* /
    proposal,             \* proposal document written to proposal.json
    pid,                  \* proposal id returned by submit_proposal
    txid,                 \* transaction id returned by submit_proposal
    balance,              \* history: the amounts get_governance_tokens parsed
    tokens,               \* result of get_governance_tokens
    vote_txid,            \* result of vote_on_proposal
    voting_amount,        \* --amount of the vote command (0 if none issued)
    n_propose,            \* number of propose commands issued
    n_vote,               \* number of vote commands issued
    cmds,                 \* CLI commands issued by the last step, in order
    mon,                  \* monitor loop: "NotStarted", "Polling" or its exit
    pc,                   \* monitor loop: next external call
    mon_pid,              \* monitor_proposal's pid
    mon_txid,             \* monitor_proposal's txid
    mon_stop_vote_height, \* monitor_proposal's stop_vote_height
    mon_trigger_height,   \* monitor_proposal's trigger_height
    last_height,          \* monitor_proposal's last_height
    status,               \* monitor_proposal's status ("" when not in scope)
    checks_after_trigger, \* monitor_proposal's checks_after_trigger
    consensus,            \* result of the last check_consensus_status call
    uncounted,            \* history: post-trigger iterations that did not count
    calm_polls,           \* history: completed polls if all were calm, else -1
    quiet,                \* history: no read or poll so far was out of the calm
    interrupted,          \* history: an interrupt was delivered
    height_read,          \* history: result of the loop's last get_current_height
    consensus_parsed,     \* history: this iteration's consensus check got a document
    call                  \* history: the last function applied on its own

argVars == <<interactive, verbose, arg_address>>
planVars == <<config, stop_vote_height, trigger_height, block_num_height>>
monVars ==
    <<mon, pc, mon_pid, mon_txid, mon_stop_vote_height, mon_trigger_height,
      last_height, status, checks_after_trigger, consensus, uncounted,
      calm_polls, quiet, interrupted, height_read, consensus_parsed>>
vars ==
    <<interactive, verbose, arg_address, stage, cli_ok, exit_status,
      abort_cause, address, initialized, current_height, config,
      stop_vote_height, trigger_height, block_num_height, proposal, pid, txid,
      balance, tokens, vote_txid, voting_amount, n_propose, n_vote, cmds, mon, pc,
      mon_pid, mon_txid, mon_stop_vote_height, mon_trigger_height, last_height,
      status, checks_after_trigger, consensus, uncounted, calm_polls, quiet,
      interrupted, height_read, consensus_parsed, call>>

NoProposal == [written |-> FALSE]
NoBalance == [parsed |-> FALSE, total |-> 0, ordinary |-> 0, tdpos |-> 0]
\* no height read yet in the loop; no function applied on its own
NoRead == [tag |-> "", v |-> 0, same |-> FALSE]
NoCall == [fn |-> ""]

\* the monitor loop's locals before monitor_proposal is called
MonitorIdle ==
    /\ mon = "NotStarted"
    /\ pc = "none"
    /\ mon_pid = NoneStr
    /\ mon_txid = NoneStr
    /\ mon_stop_vote_height = 0
    /\ mon_trigger_height = 0
    /\ last_height = NoHeight
    /\ status = ""
    /\ checks_after_trigger = 0
    /\ consensus = FALSE
    /\ uncounted = 0
    /\ calm_polls = 0
    /\ quiet = TRUE
    /\ interrupted = FALSE
    /\ height_read = NoRead
    /\ consensus_parsed = FALSE

Init ==
    /\ interactive \in BOOLEAN
    /\ verbose \in BOOLEAN
    /\ arg_address \in {"", "Aarg"}
    /\ stage = "Start"
    /\ cli_ok = FALSE
    /\ exit_status = 0 - 1
    /\ abort_cause = ""
    /\ address = ""
    /\ initialized = FALSE
    /\ current_height = NoHeight
    /\ config = DEFAULT_CONFIG
    /\ stop_vote_height = 0
    /\ trigger_height = 0
    /\ block_num_height = 0
    /\ proposal = NoProposal
    /\ pid = NoneStr
    /\ txid = NoneStr
    /\ balance = NoBalance
    /\ tokens = 0
    /\ vote_txid = NoneStr
    /\ voting_amount = 0
    /\ n_propose = 0
    /\ n_vote = 0
    /\ cmds = <<>>
    /\ call = NoCall
    /\ MonitorIdle

\* sys.exit(1), or an exception that escapes main
Abort(cause) ==
    /\ stage' = "Aborted"
    /\ exit_status' = 1
    /\ abort_cause' = cause

(***************************************************************************)
(* check_xchain_cli                                                        *)
(***************************************************************************)
VersionOuts == {[kind |-> "text"]}

check_xchain_cli(p) == Truthy(run_command(p))

\* main, line 590
main_check_xchain_cli ==
    /\ stage = "Start"
    /\ ~cli_ok
    /\ \E p \in Procs(VersionOuts) :
          IF check_xchain_cli(p)
          THEN /\ cli_ok' = TRUE
               /\ UNCHANGED <<stage, exit_status, abort_cause>>
          ELSE /\ Abort("cli_unavailable")
               /\ UNCHANGED cli_ok
    /\ cmds' = <<"version">>
    /\ UNCHANGED <<argVars, call, address, initialized, current_height, planVars,
                   proposal, pid, txid, balance, tokens, vote_txid, voting_amount,
                   n_propose, n_vote, monVars>>

(***************************************************************************)
(* get_address                                                             *)
(***************************************************************************)
\* "account default" output: no "address" in it, "address" without a
\* parsable value, or "address: <alphanumeric>"
AccountOuts == {[kind |-> "text"], [kind |-> "addr_nomatch"], [kind |-> "addr_match"]}
TypedAddresses == {"", "Atyped"}

get_address(arg, p, use_default, typed1, typed2) ==
    LET result == run_command(p)
        fromCli ==
            IF Truthy(result) /\ result.kind = "addr_match"
            THEN IF StripLower(use_default) # "" /\ StripLower(use_default) # "y"
                 THEN typed1
                 ELSE "Acli"
            ELSE ""
        a == IF arg # "" THEN arg ELSE fromCli
    IN  IF a # "" THEN a
        ELSE IF typed2 # "" THEN typed2
        ELSE DEFAULT_ADDRESS

\* main, line 594
main_get_address ==
    /\ stage = "Start"
    /\ cli_ok
    /\ \E p \in Procs(AccountOuts), use_default \in YesNoRaw,
          typed1 \in TypedAddresses, typed2 \in TypedAddresses :
          address' = get_address(arg_address, p, use_default, typed1, typed2)
    /\ cmds' = IF arg_address # "" THEN <<>> ELSE <<"account_default">>
    /\ stage' = "AddressResolved"
    /\ UNCHANGED <<argVars, call, cli_ok, exit_status, abort_cause, initialized,
                   current_height, planVars, proposal, pid, txid, balance, tokens,
                   vote_txid, voting_amount, n_propose, n_vote, monVars>>

(***************************************************************************)
(* check_governance_initialized                                            *)
(***************************************************************************)
GovernOuts == {[kind |-> "text"]}
\* "governToken init" output: without or with a "Tx id:" label
InitOuts == {[kind |-> "text"], [kind |-> "txlabel"]}

\* result and the commands issued
check_governance_initialized(inter, p, answer, pinit) ==
    LET output == run_command(p)
        init_output == run_command(pinit)
    IN  IF ~Truthy(output)
        THEN IF inter
             THEN IF StripLower(answer) = "y"
                  THEN [ret |-> Truthy(init_output) /\ init_output.kind = "txlabel",
                        cmds |-> <<"govern_query", "govern_init">>]
                  ELSE [ret |-> FALSE, cmds |-> <<"govern_query">>]
             ELSE [ret |-> FALSE, cmds |-> <<"govern_query">>]
        ELSE [ret |-> TRUE, cmds |-> <<"govern_query">>]

\* main, lines 597-599
main_check_governance ==
    /\ stage = "AddressResolved"
    /\ \E p \in Procs(GovernOuts), answer \in YesNoRaw, pinit \in Procs(InitOuts) :
          LET r == check_governance_initialized(interactive, p, answer, pinit) IN
          /\ initialized' = r.ret
          /\ cmds' = r.cmds
          /\ IF ~r.ret /\ ~interactive
             THEN Abort("governance_absent")
             ELSE /\ stage' = "GovernanceChecked"
                  /\ UNCHANGED <<exit_status, abort_cause>>
    /\ UNCHANGED <<argVars, call, cli_ok, address, current_height, planVars,
                   proposal, pid, txid, balance, tokens, vote_txid, voting_amount,
                   n_propose, n_vote, monVars>>

(***************************************************************************)
(* get_current_height                                                      *)
(***************************************************************************)
\* "status" output: text that is not JSON; JSON lacking a key on the path
\* blockchains[0].ledger.trunkHeight; an empty blockchains list; a
\* trunkHeight that int() rejects; JSON that is not an object; or a status
\* document with its height and consensus names
StatusOuts(H, C, N) ==
    {[kind |-> k] : k \in {"badjson", "nokey", "emptylist", "nonnum", "nondict"}}
    \cup {[kind |-> "status", height |-> h, consensusName |-> c, nested |-> n] :
             h \in H, c \in C, n \in N}

HNone == [tag |-> "none", v |-> 0]
HRaise == [tag |-> "raise", v |-> 0]

\* only JSONDecodeError and KeyError are caught (line 176)
get_current_height(p) ==
    LET output == run_command(p) IN
    IF ~Truthy(output) THEN HNone
    ELSE IF output.kind \in {"emptylist", "nonnum", "nondict"} THEN HRaise
    ELSE IF output.kind = "status" THEN [tag |-> "int", v |-> output.height]
    ELSE HNone

\* as HeightFalsy, but only None counts as no height
HeightFalsy_none_only(r) == r.tag = "none"

\* "if not current_height": None and 0 are falsy
HeightFalsy(r) == r.tag = "none" \/ (r.tag = "int" /\ r.v = 0)

\* main, lines 602-604; an exception out of get_current_height ends the
\* process with a traceback and status 1
main_get_current_height ==
    /\ stage = "GovernanceChecked"
    /\ \E p \in Procs(StatusOuts(0..MaxChainHeight, {"x"}, {"x"})) :
          LET r == get_current_height(p) IN
          IF r.tag = "raise" \/ HeightFalsy(r)
          THEN /\ Abort("height_unreadable")
               /\ UNCHANGED current_height
          ELSE /\ current_height' = r.v
               /\ stage' = "HeightRead"
               /\ UNCHANGED <<exit_status, abort_cause>>
    /\ cmds' = <<"status">>
    /\ UNCHANGED <<argVars, call, cli_ok, address, initialized, planVars, proposal,
                   pid, txid, balance, tokens, vote_txid, voting_amount, n_propose,
                   n_vote, monVars>>

(***************************************************************************)
(* get_config_from_user                                                    *)
(***************************************************************************)
\* as get_config_from_user, but block_num_height leaves out the trigger buffer
get_config_from_user_skips_buffer(inter, h, user_duration, user_min_vote, user_buffer) ==
    LET c1 == IF inter /\ isdigit(user_duration)
              THEN [DEFAULT_CONFIG EXCEPT !.vote_duration_blocks = user_duration.val]
              ELSE DEFAULT_CONFIG
        c2 == IF inter /\ isdigit(user_min_vote)
                 /\ 1 <= user_min_vote.val /\ user_min_vote.val <= 100
              THEN [c1 EXCEPT !.min_vote_percent = user_min_vote.val]
              ELSE c1
        c3 == IF inter /\ isdigit(user_buffer)
              THEN [c2 EXCEPT !.trigger_buffer = user_buffer.val]
              ELSE c2
        sv == h + c3.vote_duration_blocks
        tr == sv + c3.trigger_buffer
        bn == sv + c3.block_num_buffer
    IN  [config |-> c3, stop_vote_height |-> sv, trigger_height |-> tr,
         block_num_height |-> bn]

\* as get_config_from_user, but the trigger buffer is counted back from the
\* end of the vote
get_config_from_user_counts_back(inter, h, user_duration, user_min_vote, user_buffer) ==
    LET c1 == IF inter /\ isdigit(user_duration)
              THEN [DEFAULT_CONFIG EXCEPT !.vote_duration_blocks = user_duration.val]
              ELSE DEFAULT_CONFIG
        c2 == IF inter /\ isdigit(user_min_vote)
                 /\ 1 <= user_min_vote.val /\ user_min_vote.val <= 100
              THEN [c1 EXCEPT !.min_vote_percent = user_min_vote.val]
              ELSE c1
        c3 == IF inter /\ isdigit(user_buffer)
              THEN [c2 EXCEPT !.trigger_buffer = user_buffer.val]
              ELSE c2
        sv == h + c3.vote_duration_blocks
        tr == sv - c3.trigger_buffer
        bn == tr + c3.block_num_buffer
    IN  [config |-> c3, stop_vote_height |-> sv, trigger_height |-> tr,
         block_num_height |-> bn]

get_config_from_user(inter, h, user_duration, user_min_vote, user_buffer) ==
    LET c1 == IF inter /\ isdigit(user_duration)
              THEN [DEFAULT_CONFIG EXCEPT !.vote_duration_blocks = user_duration.val]
              ELSE DEFAULT_CONFIG
        c2 == IF inter /\ isdigit(user_min_vote)
                 /\ 1 <= user_min_vote.val /\ user_min_vote.val <= 100
              THEN [c1 EXCEPT !.min_vote_percent = user_min_vote.val]
              ELSE c1
        c3 == IF inter /\ isdigit(user_buffer)
              THEN [c2 EXCEPT !.trigger_buffer = user_buffer.val]
              ELSE c2
        sv == h + c3.vote_duration_blocks
        tr == sv + c3.trigger_buffer
        bn == tr + c3.block_num_buffer
    IN  [config |-> c3, stop_vote_height |-> sv, trigger_height |-> tr,
         block_num_height |-> bn]

\* main, line 607
main_get_config ==
    /\ stage = "HeightRead"
    /\ \E e1 \in BlockEntries, e2 \in PercentEntries, e3 \in BlockEntries :
          LET r == get_config_from_user(interactive, current_height, e1, e2, e3) IN
          /\ config' = r.config
          /\ stop_vote_height' = r.stop_vote_height
          /\ trigger_height' = r.trigger_height
          /\ block_num_height' = r.block_num_height
    /\ stage' = "Planned"
    /\ cmds' = <<>>
    /\ UNCHANGED <<argVars, call, cli_ok, exit_status, abort_cause, address,
                   initialized, current_height, proposal, pid, txid, balance, tokens,
                   vote_txid, voting_amount, n_propose, n_vote, monVars>>

(***************************************************************************)
(* create_proposal_json                                                    *)
(***************************************************************************)
\* the fields of the document that depend on the run
create_proposal_json(proposer, c, sv, tr, bn) ==
    [written |-> TRUE,
     min_vote_percent |-> c.min_vote_percent,
     stop_vote_height |-> sv,
     trigger_height |-> tr,
     block_num |-> bn,
     init_proposer |-> proposer]

\* as main_create_proposal, but a failed write does not stop the run
main_create_proposal_ignores_failure ==
    /\ stage = "Planned"
    /\ \E write_ok \in BOOLEAN :
          /\ proposal' = IF write_ok
                         THEN create_proposal_json(address, config, stop_vote_height,
                                                   trigger_height, block_num_height)
                         ELSE proposal
          /\ stage' = "ProposalBuilt"
          /\ UNCHANGED <<exit_status, abort_cause>>
    /\ cmds' = <<>>
    /\ UNCHANGED <<argVars, call, cli_ok, address, initialized, current_height,
                   planVars, pid, txid, balance, tokens, vote_txid, voting_amount,
                   n_propose, n_vote, monVars>>

\* main, line 610; makedirs/open/dump can raise OSError, which escapes main
main_create_proposal ==
    /\ stage = "Planned"
    /\ \E write_ok \in BOOLEAN :
          IF write_ok
          THEN /\ proposal' = create_proposal_json(address, config,
                                  stop_vote_height, trigger_height, block_num_height)
               /\ stage' = "ProposalBuilt"
               /\ UNCHANGED <<exit_status, abort_cause>>
          ELSE /\ Abort("build_failed")
               /\ UNCHANGED proposal
    /\ cmds' = <<>>
    /\ UNCHANGED <<argVars, call, cli_ok, address, initialized, current_height,
                   planVars, pid, txid, balance, tokens, vote_txid, voting_amount,
                   n_propose, n_vote, monVars>>

(***************************************************************************)
(* submit_proposal                                                         *)
(***************************************************************************)
\* "proposal propose" output: with or without "contract response: <digits>"
\* and "Tx id: <hex>"
ProposeOuts ==
    {[kind |-> "text", has_pid |-> a, has_txid |-> b] : a \in BOOLEAN, b \in BOOLEAN}
\* "tx query" output read line by line: without or with a line holding
\* bucket, proposal and "key": "<digits>"
TxLineOuts == {[kind |-> "text"], [kind |-> "keyline"]}
ManualPids == {"", "9"}

\* ret = "None" for return None, "tuple" for return pid, txid
submit_proposal(inter, confirm, p, ptx, manual) ==
    LET result == run_command(p)
        tx_result == run_command(ptx)
        cancelled == inter /\ StripLower(confirm) # "" /\ StripLower(confirm) # "y"
        pid0 == IF result.has_pid THEN "7" ELSE NoneStr
        txid0 == IF result.has_txid THEN "ab12" ELSE NoneStr
        query == txid0 # NoneStr /\ pid0 = NoneStr
        pid1 == IF query /\ Truthy(tx_result) /\ tx_result.kind = "keyline"
                THEN "7" ELSE pid0
        pid2 == IF pid1 = NoneStr /\ inter THEN manual ELSE pid1
    IN  IF cancelled
        THEN [ret |-> "None", pid |-> NoneStr, txid |-> NoneStr, cmds |-> <<>>]
        ELSE IF ~Truthy(result)
        THEN [ret |-> "None", pid |-> NoneStr, txid |-> NoneStr, cmds |-> <<"propose">>]
        ELSE [ret |-> "tuple", pid |-> pid2, txid |-> txid0,
              cmds |-> IF query THEN <<"propose", "tx_query">> ELSE <<"propose">>]

\* "if not pid_txid": None is falsy, a 2-tuple is truthy whatever it holds
PidTxidFalsy(r) == r.ret = "None"

\* as main_submit_proposal, but a failed submission is tried again
main_submit_proposal_retries ==
    /\ stage = "ProposalBuilt"
    /\ \E confirm \in YesNoRaw, p \in Procs(ProposeOuts), ptx \in Procs(TxLineOuts),
          manual \in ManualPids :
          LET r == submit_proposal(interactive, confirm, p, ptx, manual) IN
          /\ cmds' = r.cmds
          /\ n_propose' = n_propose + (IF r.cmds = <<>> THEN 0 ELSE 1)
          /\ IF PidTxidFalsy(r)
             THEN UNCHANGED <<pid, txid, stage, exit_status, abort_cause>>
             ELSE /\ pid' = r.pid
                  /\ txid' = r.txid
                  /\ stage' = "Submitted"
                  /\ UNCHANGED <<exit_status, abort_cause>>
    /\ UNCHANGED <<argVars, call, cli_ok, address, initialized, current_height,
                   planVars, proposal, balance, tokens, vote_txid, voting_amount,
                   n_vote, monVars>>

\* main, lines 613-617
main_submit_proposal ==
    /\ stage = "ProposalBuilt"
    /\ \E confirm \in YesNoRaw, p \in Procs(ProposeOuts), ptx \in Procs(TxLineOuts),
          manual \in ManualPids :
          LET r == submit_proposal(interactive, confirm, p, ptx, manual) IN
          /\ cmds' = r.cmds
          /\ n_propose' = n_propose + (IF r.cmds = <<>> THEN 0 ELSE 1)
          /\ IF PidTxidFalsy(r)
             THEN /\ Abort("submit_failed")
                  /\ UNCHANGED <<pid, txid>>
             ELSE /\ pid' = r.pid
                  /\ txid' = r.txid
                  /\ stage' = "Submitted"
                  /\ UNCHANGED <<exit_status, abort_cause>>
    /\ UNCHANGED <<argVars, call, cli_ok, address, initialized, current_height,
                   planVars, proposal, balance, tokens, vote_txid, voting_amount,
                   n_vote, monVars>>

(***************************************************************************)
(* get_governance_tokens                                                   *)
(***************************************************************************)
\* "governToken query" output: not JSON, JSON whose amounts int() rejects or
\* that is not an object, or a balance document (absent fields read as 0)
BalanceOuts ==
    {[kind |-> "badjson"], [kind |-> "nonnum"]}
    \cup {[kind |-> "balance", total |-> t, ordinary |-> o, tdpos |-> d] :
             t \in 0..MaxBalance, o \in 0..MaxBalance, d \in 0..MaxBalance}

\* the amounts parsed at lines 349-354, when parsing gets that far
parsed_balance(p) ==
    LET output == run_command(p) IN
    IF Truthy(output) /\ output.kind = "balance"
    THEN [parsed |-> TRUE, total |-> output.total, ordinary |-> output.ordinary,
          tdpos |-> output.tdpos]
    ELSE NoBalance

get_governance_tokens_clamped(p) ==
    LET b == parsed_balance(p)
        available == b.total - b.ordinary - b.tdpos
    IN  IF b.parsed /\ available > 0 THEN available ELSE 0

get_governance_tokens(p) ==
    LET b == parsed_balance(p) IN
    IF b.parsed THEN b.total - b.ordinary - b.tdpos ELSE 0

\* main, line 620
main_get_governance_tokens ==
    /\ stage = "Submitted"
    /\ \E p \in Procs(BalanceOuts) :
          /\ tokens' = get_governance_tokens(p)
          /\ balance' = parsed_balance(p)
    /\ stage' = "TokensQueried"
    /\ cmds' = <<"govern_query">>
    /\ UNCHANGED <<argVars, call, cli_ok, exit_status, abort_cause, address,
                   initialized, current_height, planVars, proposal, pid, txid,
                   vote_txid, voting_amount, n_propose, n_vote, monVars>>

(***************************************************************************)
(* vote_on_proposal                                                        *)
(***************************************************************************)
\* "proposal vote" output: without or with "Tx id: <hex>"
VoteOuts == {[kind |-> "text"], [kind |-> "txlabel"]}

\* int(tokens * 0.9) for tokens > 0
NineTenths(t) == (t * 9) \div 10

vote_on_proposal(inter, tk, user_amount, p) ==
    LET result == run_command(p)
        amount ==
            IF inter /\ isdigit(user_amount) /\ user_amount.val > 0
            THEN Min(user_amount.val, tk)
            ELSE NineTenths(tk)
    IN  IF tk <= 0
        THEN [ret |-> NoneStr, amount |-> 0, cmds |-> <<>>]
        ELSE [ret |-> IF Truthy(result) /\ result.kind = "txlabel"
                      THEN "cd34" ELSE NoneStr,
              amount |-> amount, cmds |-> <<"vote">>]

(***************************************************************************)
(* monitor_proposal: entry and exits                                       *)
(***************************************************************************)
\* as EnterMonitor, but the submission transaction id is preferred
EnterMonitor_prefers_submission ==
    /\ stage' = "Monitoring"
    /\ mon' = "Polling"
    /\ pc' = "get_current_height"
    /\ mon_pid' = pid
    /\ mon_txid' = IF txid # NoneStr THEN txid ELSE vote_txid
    /\ mon_stop_vote_height' = stop_vote_height
    /\ mon_trigger_height' = trigger_height
    /\ last_height' = NoHeight
    /\ status' = ""
    /\ checks_after_trigger' = 0
    /\ consensus' = FALSE
    /\ uncounted' = 0
    /\ calm_polls' = 0
    /\ quiet' = TRUE
    /\ interrupted' = FALSE
    /\ height_read' = NoRead
    /\ consensus_parsed' = FALSE

\* lines 482-493, with the arguments of the call at line 635
EnterMonitor ==
    /\ stage' = "Monitoring"
    /\ mon' = "Polling"
    /\ pc' = "get_current_height"
    /\ mon_pid' = pid
    /\ mon_txid' = IF vote_txid # NoneStr THEN vote_txid ELSE txid
    /\ mon_stop_vote_height' = stop_vote_height
    /\ mon_trigger_height' = trigger_height
    /\ last_height' = NoHeight
    /\ status' = ""
    /\ checks_after_trigger' = 0
    /\ consensus' = FALSE
    /\ uncounted' = 0
    /\ calm_polls' = 0
    /\ quiet' = TRUE
    /\ interrupted' = FALSE
    /\ height_read' = NoRead
    /\ consensus_parsed' = FALSE

\* the ways the loop ends: the breaks at lines 554, 557, 566, 569, 576 and
\* the handlers at lines 583 and 585
MonitorExits ==
    {"ConfirmedSuccess", "MaxChecksExhausted", "Rejected", "Expired",
     "UserCancelled", "Error"}

\* as LeaveExitStatus, but exhausting the checks is reported as a failure
LeaveExitStatus_fails_on_exhaustion(outcome) ==
    IF outcome = "MaxChecksExhausted" THEN 1 ELSE 0

\* monitor_proposal returns, main returns, the process ends
LeaveExitStatus(outcome) == 0

Leave(outcome) ==
    /\ mon' = outcome
    /\ stage' = "Done"
    /\ exit_status' = LeaveExitStatus(outcome)
    /\ UNCHANGED abort_cause

\* as main_vote, but the test at line 624 is tokens >= 0
main_vote_on_zero ==
    /\ stage = "TokensQueried"
    /\ tokens >= 0
    /\ \E user_amount \in AmountEntries, p \in Procs(VoteOuts) :
          LET r == vote_on_proposal(interactive, tokens, user_amount, p) IN
          /\ vote_txid' = r.ret
          /\ voting_amount' = r.amount
          /\ cmds' = r.cmds
          /\ n_vote' = n_vote + Len(r.cmds)
    /\ stage' = "Voted"
    /\ UNCHANGED <<argVars, call, cli_ok, exit_status, abort_cause, address,
                   initialized, current_height, planVars, proposal, pid, txid,
                   balance, tokens, n_propose, monVars>>

\* main, lines 623-631 when tokens > 0
main_vote ==
    /\ stage = "TokensQueried"
    /\ tokens > 0
    /\ \E user_amount \in AmountEntries, p \in Procs(VoteOuts) :
          LET r == vote_on_proposal(interactive, tokens, user_amount, p) IN
          /\ vote_txid' = r.ret
          /\ voting_amount' = r.amount
          /\ cmds' = r.cmds
          /\ n_vote' = n_vote + Len(r.cmds)
    /\ stage' = "Voted"
    /\ UNCHANGED <<argVars, call, cli_ok, exit_status, abort_cause, address,
                   initialized, current_height, planVars, proposal, pid, txid,
                   balance, tokens, n_propose, monVars>>

\* main, lines 626-635 when tokens <= 0: no vote; in interactive mode the
\* user is asked whether to go on
main_skip_vote ==
    /\ stage = "TokensQueried"
    /\ ~(tokens > 0)
    /\ \E continue_anyway \in YesNoRaw :
          IF interactive /\ StripLower(continue_anyway) # ""
             /\ StripLower(continue_anyway) # "y"
          THEN /\ Abort("monitoring_declined")
               /\ UNCHANGED monVars
          ELSE /\ EnterMonitor
               /\ UNCHANGED <<exit_status, abort_cause>>
    /\ cmds' = <<>>
    /\ UNCHANGED <<argVars, call, cli_ok, address, initialized, current_height,
                   planVars, proposal, pid, txid, balance, tokens, vote_txid,
                   voting_amount, n_propose, n_vote>>

\* main, lines 634-635 after the vote
main_monitor ==
    /\ stage = "Voted"
    /\ EnterMonitor
    /\ cmds' = <<>>
    /\ UNCHANGED <<argVars, call, cli_ok, exit_status, abort_cause, address,
                   initialized, current_height, planVars, proposal, pid, txid,
                   balance, tokens, vote_txid, voting_amount, n_propose, n_vote>>

\* monitor_proposal seen from main: whatever happens in the loop, the call
\* returns normally when the loop ends (MonitorSpec models the loop itself)
monitor_proposal_returns ==
    /\ stage = "Monitoring"
    /\ mon = "Polling"
    /\ \E outcome \in MonitorExits :
          /\ Leave(outcome)
          /\ interrupted' = (outcome = "UserCancelled")
    /\ cmds' = <<>>
    /\ UNCHANGED <<argVars, call, cli_ok, address, initialized, current_height,
                   planVars, proposal, pid, txid, balance, tokens, vote_txid,
                   voting_amount, n_propose, n_vote, pc, mon_pid, mon_txid,
                   mon_stop_vote_height, mon_trigger_height, last_height,
                   status, checks_after_trigger, consensus, uncounted,
                   calm_polls, quiet, height_read, consensus_parsed>>

Next ==
    \/ main_check_xchain_cli
    \/ main_get_address
    \/ main_check_governance
    \/ main_get_current_height
    \/ main_get_config
    \/ main_create_proposal
    \/ main_submit_proposal
    \/ main_get_governance_tokens
    \/ main_vote
    \/ main_skip_vote
    \/ main_monitor
    \/ monitor_proposal_returns

Spec == Init /\ [][Next]_vars

(***************************************************************************)
(* The monitor loop, step by step                                          *)
(***************************************************************************)
\* a JSON value that is not a string, where a string is expected
NonString == "<nonstring>"

\* str.lower() on the texts of the model
lower(t) ==
    CASE t = "Passed" -> "passed"
      [] t = "EXPIRED" -> "expired"
      [] t = "TDPOS" -> "tdpos"
      [] OTHER -> t

TerminalSuccess == {"completed_success", "completed", "passed"}
TerminalFailure == {"rejected", "expired"}

\* proposal_data.get("status", "unknown"): "unknown" stands for a document
\* without a status
StatusValues ==
    {"pending", "unknown", "completed_success", "completed", "Passed",
     "rejected", "EXPIRED", NonString}

\* the "args" and "trigger" members of the proposal document, as lines 519
\* and 525 read them: not an object, an object whose height int() rejects,
\* or an object with a height
FieldInt(n) == [k |-> "int", v |-> n]
FieldShapes == {[k |-> "nondict", v |-> 0], [k |-> "bad", v |-> 0], FieldInt(0), FieldInt(1)}

\* what get_proposal_status can return: None, a falsy JSON value, a truthy
\* JSON value that is not an object, or an object.  The heights in the
\* document are read only when the loop was given none (needFields).
NoData == [shape |-> "none"]
ProposalData(needFields) ==
    {NoData, [shape |-> "falsy"], [shape |-> "nondict"]}
    \cup {[shape |-> "dict", status |-> st, args |-> a, trigger |-> t] :
             st \in StatusValues,
             a \in IF needFields THEN FieldShapes ELSE {FieldInt(0)},
             t \in IF needFields THEN FieldShapes ELSE {FieldInt(0)}}

\* "proposal query" output: no "contract response:" marker, a marker followed
\* by text that is not JSON, or a marker followed by a JSON value
ProposalOuts(D) ==
    {[kind |-> "text"], [kind |-> "marker_badjson"]}
    \cup {[kind |-> "marker_json", data |-> d] : d \in D \ {NoData}}
\* "tx query" output: not JSON or not an object, no txOutputsExt entry of
\* bucket "proposal" whose key is the pid, such an entry whose value is not
\* JSON, or such an entry with a JSON value
TxJsonOuts(D) ==
    {[kind |-> "badjson"], [kind |-> "nomatch"], [kind |-> "match_badvalue"]}
    \cup {[kind |-> "match", data |-> d] : d \in D \ {NoData}}

DirectHit(p) ==
    LET output == run_command(p) IN Truthy(output) /\ output.kind = "marker_json"

\* as get_proposal_status, but the transaction is queried before the result
\* of the direct query is looked at
get_proposal_status_queries_tx_first(tx, p, ptx) ==
    LET output == run_command(p)
        tx_result == run_command(ptx)
    IN  IF tx # NoneStr
        THEN [data |-> IF DirectHit(p) THEN output.data
                       ELSE IF Truthy(tx_result) /\ tx_result.kind = "match"
                       THEN tx_result.data ELSE NoData,
              cmds |-> <<"proposal_query", "tx_query">>, queried |-> tx]
        ELSE [data |-> IF DirectHit(p) THEN output.data ELSE NoData,
              cmds |-> <<"proposal_query">>, queried |-> NoneStr]

\* data is the value returned, cmds the commands issued and queried the
\* transaction id given to "tx query" (None when it is not issued)
get_proposal_status(tx, p, ptx) ==
    LET output == run_command(p)
        tx_result == run_command(ptx)
    IN  IF DirectHit(p)
        THEN [data |-> output.data, cmds |-> <<"proposal_query">>,
              queried |-> NoneStr]
        ELSE IF tx # NoneStr
        THEN [data |-> IF Truthy(tx_result) /\ tx_result.kind = "match"
                       THEN tx_result.data ELSE NoData,
              cmds |-> <<"proposal_query", "tx_query">>, queried |-> tx]
        ELSE [data |-> NoData, cmds |-> <<"proposal_query">>,
              queried |-> NoneStr]

ConsensusNames == {"tdpos", "TDPOS", "x", NonString}

\* as check_consensus_status, but a status query that fails counts as a match
check_consensus_status_trusts_failure(p) ==
    LET o == run_command(p) IN
    IF ~Truthy(o) THEN TRUE
    ELSE IF o.kind # "status" THEN FALSE
    ELSE IF o.consensusName = NonString THEN FALSE
    ELSE IF lower(o.consensusName) = "tdpos" THEN TRUE
    ELSE IF o.nested = NonString THEN FALSE
    ELSE lower(o.nested) = "tdpos"

\* every exception is caught and gives False (line 478)
check_consensus_status(p) ==
    LET o == run_command(p) IN
    IF ~Truthy(o) THEN FALSE
    ELSE IF o.kind # "status" THEN FALSE
    ELSE IF o.consensusName = NonString THEN FALSE
    ELSE IF lower(o.consensusName) = "tdpos" THEN TRUE
    ELSE IF o.nested = NonString THEN FALSE
    ELSE lower(o.nested) = "tdpos"

\* the loop's own state as a record
MonState ==
    [mon |-> mon, pc |-> pc, svh |-> mon_stop_vote_height,
     trig |-> mon_trigger_height, last_height |-> last_height,
     status |-> status, checks |-> checks_after_trigger,
     consensus |-> consensus, uncounted |-> uncounted,
     calm_polls |-> calm_polls, quiet |-> quiet, read |-> height_read,
     parsed |-> consensus_parsed]

Exit(s, outcome) == [s EXCEPT !.mon = outcome]

\* history: the trigger height has been read in this or an earlier iteration
Seen(s) == s.checks > 0 \/ s.uncounted > 0
Bump(s, cond) ==
    IF cond THEN [s EXCEPT !.uncounted = Min(s.uncounted + 1, IdleCap)] ELSE s

\* lines 578-581: sleep and start the next iteration; status goes out of use
EndIteration(s, calm) ==
    [s EXCEPT !.pc = "get_current_height",
              !.status = "",
              !.calm_polls = IF calm /\ s.calm_polls >= 0
                             THEN Min(s.calm_polls + 1, MaxCalmPolls)
                             ELSE 0 - 1]

\* history: what the height read returned, and whether it returned the
\* height of the last iteration that went past line 508
Read(s, r) ==
    [tag |-> r.tag, v |-> r.v,
     same |-> r.tag = "int" /\ s.last_height # NoHeight /\ r.v = s.last_height]

\* as after_height, but an unchanged height is never skipped
after_height_never_skips(s, r, verb) ==
    LET t == [s EXCEPT !.read = Read(s, r), !.parsed = FALSE] IN
    IF r.tag = "raise" THEN Exit([t EXCEPT !.quiet = FALSE], "Error")
    ELSE IF HeightFalsy(r) THEN Bump(t, Seen(t))
    ELSE [t EXCEPT !.last_height = r.v,
                   !.pc = "get_proposal_status",
                   !.quiet = t.quiet /\ r.v < t.trig]

\* lines 496-508, r the result of get_current_height
after_height(s, r, verb) ==
    LET t == [s EXCEPT !.read = Read(s, r), !.parsed = FALSE] IN
    IF r.tag = "raise" THEN Exit([t EXCEPT !.quiet = FALSE], "Error")
    ELSE IF HeightFalsy(r) THEN Bump(t, Seen(t))
    ELSE IF t.last_height # NoHeight /\ r.v = t.last_height /\ ~verb
    THEN Bump(t, Seen(t))
    ELSE [t EXCEPT !.last_height = r.v,
                   !.pc = "get_proposal_status",
                   !.quiet = t.quiet /\ r.v < t.trig]

\* as status_branch, but rejected and expired do not end the loop
status_branch_no_failure_exit(s) ==
    IF s.status = NonString THEN Exit(s, "Error")
    ELSE IF lower(s.status) \in TerminalSuccess
    THEN [s EXCEPT !.pc = "consensus_at_success"]
    ELSE EndIteration(s, s.last_height < s.trig)

\* as status_branch, but a terminal-success status ends the loop without
\* the consensus re-check
status_branch_trusts_status(s) ==
    IF s.status = NonString THEN Exit(s, "Error")
    ELSE IF lower(s.status) \in TerminalSuccess
    THEN Exit(s, "ConfirmedSuccess")
    ELSE IF lower(s.status) \in TerminalFailure
    THEN Exit(s, IF lower(s.status) = "rejected" THEN "Rejected" ELSE "Expired")
    ELSE EndIteration(s, s.last_height < s.trig)

\* lines 561-569
status_branch(s) ==
    IF s.status = NonString THEN Exit(s, "Error")
    ELSE IF lower(s.status) \in TerminalSuccess
    THEN [s EXCEPT !.pc = "consensus_at_success"]
    ELSE IF lower(s.status) \in TerminalFailure
    THEN Exit(s, IF lower(s.status) = "rejected" THEN "Rejected" ELSE "Expired")
    ELSE EndIteration(s, s.last_height < s.trig)

\* as after_proposal_status, but polls below the trigger height are counted too
after_proposal_status_counts_all(s, data) ==
    IF data.shape \in {"none", "falsy"}
    THEN Bump([s EXCEPT !.pc = "consensus_no_status", !.quiet = FALSE],
              Seen(s) \/ s.last_height >= s.trig)
    ELSE IF data.shape = "nondict"
    THEN Exit([s EXCEPT !.quiet = FALSE], "Error")
    ELSE IF (s.svh = 0 /\ data.args.k = "nondict")
            \/ (s.trig = 0 /\ data.trigger.k = "nondict")
    THEN Exit([s EXCEPT !.status = data.status, !.quiet = FALSE], "Error")
    ELSE LET s1 == [s EXCEPT
                      !.status = data.status,
                      !.svh = IF s.svh # 0 THEN s.svh ELSE data.args.v,
                      !.trig = IF s.trig # 0 THEN s.trig ELSE data.trigger.v]
             s2 == [s1 EXCEPT
                      !.quiet = /\ s.quiet
                                /\ s1.last_height < s1.trig
                                /\ data.status # NonString
                                /\ lower(data.status) \notin
                                      (TerminalSuccess \cup TerminalFailure)]
         IN  IF s2.last_height >= s2.trig
             THEN [s2 EXCEPT !.checks = s2.checks + 1, !.pc = "consensus_at_trigger"]
             ELSE status_branch([s2 EXCEPT !.checks = s2.checks + 1])

\* lines 513-551 and 570-571, data the result of get_proposal_status
after_proposal_status(s, data) ==
    IF data.shape \in {"none", "falsy"}
    THEN Bump([s EXCEPT !.pc = "consensus_no_status", !.quiet = FALSE],
              Seen(s) \/ s.last_height >= s.trig)
    ELSE IF data.shape = "nondict"
    THEN Exit([s EXCEPT !.quiet = FALSE], "Error")
    ELSE IF (s.svh = 0 /\ data.args.k = "nondict")
            \/ (s.trig = 0 /\ data.trigger.k = "nondict")
    THEN Exit([s EXCEPT !.status = data.status, !.quiet = FALSE], "Error")
    ELSE LET s1 == [s EXCEPT
                      !.status = data.status,
                      !.svh = IF s.svh # 0 THEN s.svh ELSE data.args.v,
                      !.trig = IF s.trig # 0 THEN s.trig ELSE data.trigger.v]
             s2 == [s1 EXCEPT
                      !.quiet = /\ s.quiet
                                /\ s1.last_height < s1.trig
                                /\ data.status # NonString
                                /\ lower(data.status) \notin
                                      (TerminalSuccess \cup TerminalFailure)]
         IN  IF s2.last_height >= s2.trig
             THEN [s2 EXCEPT !.checks = s2.checks + 1, !.pc = "consensus_at_trigger"]
             ELSE status_branch(Bump(s2, Seen(s2)))

\* as after_consensus_at_trigger, but the cap is tested with > instead of >=
after_consensus_at_trigger_late(s, b) ==
    LET s1 == [s EXCEPT !.consensus = b] IN
    IF b THEN Exit(s1, "ConfirmedSuccess")
    ELSE IF s1.checks > max_checks_after_trigger THEN Exit(s1, "MaxChecksExhausted")
    ELSE status_branch(s1)

\* lines 552-559, then 561-569; b the result of check_consensus_status
after_consensus_at_trigger(s, b) ==
    LET s1 == [s EXCEPT !.consensus = b] IN
    IF b THEN Exit(s1, "ConfirmedSuccess")
    ELSE IF s1.checks >= max_checks_after_trigger THEN Exit(s1, "MaxChecksExhausted")
    ELSE status_branch(s1)

\* as after_consensus_at_success, but without the break at line 566
after_consensus_at_success_no_break(s, b) ==
    EndIteration([s EXCEPT !.consensus = b], FALSE)

\* lines 564-566
after_consensus_at_success(s, b) ==
    LET s1 == [s EXCEPT !.consensus = b] IN
    IF b THEN Exit(s1, "ConfirmedSuccess") ELSE EndIteration(s1, FALSE)

\* lines 574-576
after_consensus_no_status(s, b) ==
    LET s1 == [s EXCEPT !.consensus = b] IN
    IF b THEN Exit(s1, "ConfirmedSuccess") ELSE EndIteration(s1, FALSE)

\* as after_interrupt, but the interrupt is swallowed and the loop goes on
after_interrupt_swallowed(s) == s

\* lines 583-584
after_interrupt(s) == Exit(s, "UserCancelled")

\* as Apply, but the loop's current_height is main's current_height
Apply_shares_current_height(n, c) ==
    /\ mon' = n.mon
    /\ pc' = n.pc
    /\ mon_stop_vote_height' = n.svh
    /\ mon_trigger_height' = n.trig
    /\ last_height' = n.last_height
    /\ status' = n.status
    /\ checks_after_trigger' = n.checks
    /\ consensus' = n.consensus
    /\ uncounted' = n.uncounted
    /\ calm_polls' = n.calm_polls
    /\ quiet' = n.quiet
    /\ height_read' = n.read
    /\ consensus_parsed' = n.parsed
    /\ cmds' = c
    /\ current_height' = IF n.read.tag = "int" THEN n.read.v ELSE current_height
    /\ IF n.mon # "Polling"
       THEN /\ stage' = "Done"
            /\ exit_status' = LeaveExitStatus(n.mon)
       ELSE UNCHANGED <<stage, exit_status>>
    /\ UNCHANGED <<argVars, call, cli_ok, abort_cause, address, initialized,
                   planVars, proposal, pid, txid, balance,
                   tokens, vote_txid, voting_amount, n_propose, n_vote,
                   mon_pid, mon_txid>>

\* one step of the loop: its state becomes n after issuing the commands c;
\* when the loop has ended, monitor_proposal and main return
Apply(n, c) ==
    /\ mon' = n.mon
    /\ pc' = n.pc
    /\ mon_stop_vote_height' = n.svh
    /\ mon_trigger_height' = n.trig
    /\ last_height' = n.last_height
    /\ status' = n.status
    /\ checks_after_trigger' = n.checks
    /\ consensus' = n.consensus
    /\ uncounted' = n.uncounted
    /\ calm_polls' = n.calm_polls
    /\ quiet' = n.quiet
    /\ height_read' = n.read
    /\ consensus_parsed' = n.parsed
    /\ cmds' = c
    /\ IF n.mon # "Polling"
       THEN /\ stage' = "Done"
            /\ exit_status' = LeaveExitStatus(n.mon)
       ELSE UNCHANGED <<stage, exit_status>>
    /\ UNCHANGED <<argVars, call, cli_ok, abort_cause, address, initialized,
                   current_height, planVars, proposal, pid, txid, balance,
                   tokens, vote_txid, voting_amount, n_propose, n_vote,
                   mon_pid, mon_txid>>

\* heights the node reports while the loop runs
MonHeights ==
    {0} \cup {h \in (mon_trigger_height - HeightBelow)..(mon_trigger_height + HeightAbove) :
                 h >= 0}

Polling(at) == stage = "Monitoring" /\ mon = "Polling" /\ pc = at

mon_get_current_height ==
    /\ Polling("get_current_height")
    /\ \E p \in Procs(StatusOuts(MonHeights, {"x"}, {"x"})) :
          Apply(after_height(MonState, get_current_height(p), verbose), <<"status">>)
    /\ UNCHANGED interrupted

mon_get_proposal_status ==
    /\ Polling("get_proposal_status")
    /\ LET D == ProposalData(mon_stop_vote_height = 0 \/ mon_trigger_height = 0) IN
       \E p \in Procs(ProposalOuts(D)) :
       \E ptx \in IF DirectHit(p) \/ mon_txid = NoneStr
                  THEN {[exc |-> TRUE, returncode |-> 0, stdout |-> EmptyOut]}
                  ELSE Procs(TxJsonOuts(D)) :
          LET r == get_proposal_status(mon_txid, p, ptx) IN
          Apply(after_proposal_status(MonState, r.data), r.cmds)
    /\ UNCHANGED interrupted

ConsensusProcs == Procs(StatusOuts({1}, ConsensusNames, ConsensusNames))

\* history: the status query of the consensus check succeeded and printed a
\* status document (lines 461-465)
Parsed(n, p) ==
    [n EXCEPT !.parsed = Truthy(run_command(p)) /\ run_command(p).kind = "status"]

mon_consensus_at_trigger ==
    /\ Polling("consensus_at_trigger")
    /\ \E p \in ConsensusProcs :
          Apply(Parsed(after_consensus_at_trigger(MonState, check_consensus_status(p)), p),
                <<"status">>)
    /\ UNCHANGED interrupted

mon_consensus_at_success ==
    /\ Polling("consensus_at_success")
    /\ \E p \in ConsensusProcs :
          Apply(Parsed(after_consensus_at_success(MonState, check_consensus_status(p)), p),
                <<"status">>)
    /\ UNCHANGED interrupted

mon_consensus_no_status ==
    /\ Polling("consensus_no_status")
    /\ \E p \in ConsensusProcs :
          Apply(Parsed(after_consensus_no_status(MonState, check_consensus_status(p)), p),
                <<"status">>)
    /\ UNCHANGED interrupted

\* KeyboardInterrupt: no handler inside the loop catches it (they catch
\* Exception), so it reaches line 583 from wherever the loop is
mon_interrupt ==
    /\ stage = "Monitoring"
    /\ mon = "Polling"
    /\ Apply(after_interrupt(MonState), <<>>)
    /\ interrupted' = TRUE

\* the states in which main calls monitor_proposal in a non-interactive run
\* (the loop reads args.interactive only to print a hint, line 486)
MonitorInit ==
    /\ interactive = FALSE
    /\ verbose \in BOOLEAN
    /\ arg_address = "Aarg"
    /\ stage = "Monitoring"
    /\ cli_ok = TRUE
    /\ exit_status = 0 - 1
    /\ abort_cause = ""
    /\ address = "Aarg"
    /\ initialized = TRUE
    /\ current_height = 1
    /\ config = DEFAULT_CONFIG
    /\ stop_vote_height = get_config_from_user(FALSE, 1, NoEntry, NoEntry, NoEntry).stop_vote_height
    /\ trigger_height = get_config_from_user(FALSE, 1, NoEntry, NoEntry, NoEntry).trigger_height
    /\ block_num_height = get_config_from_user(FALSE, 1, NoEntry, NoEntry, NoEntry).block_num_height
    /\ proposal = create_proposal_json(address, config, stop_vote_height,
                                       trigger_height, block_num_height)
    /\ pid = "7"
    /\ txid \in {NoneStr, "ab12"}
    /\ vote_txid \in {NoneStr, "cd34"}
    /\ balance = [parsed |-> TRUE, total |-> 1, ordinary |-> 0, tdpos |-> 0]
    /\ tokens = 1
    /\ voting_amount = 0
    /\ n_propose = 1
    /\ n_vote = 1
    /\ cmds = <<>>
    /\ mon = "Polling"
    /\ pc = "get_current_height"
    /\ mon_pid = pid
    /\ mon_txid = IF vote_txid # NoneStr THEN vote_txid ELSE txid
    /\ mon_stop_vote_height = stop_vote_height
    /\ mon_trigger_height = trigger_height
    /\ last_height = NoHeight
    /\ status = ""
    /\ checks_after_trigger = 0
    /\ consensus = FALSE
    /\ uncounted = 0
    /\ calm_polls = 0
    /\ quiet = TRUE
    /\ interrupted = FALSE
    /\ height_read = NoRead
    /\ consensus_parsed = FALSE
    /\ call = NoCall

MonitorNext ==
    \/ mon_get_current_height
    \/ mon_get_proposal_status
    \/ mon_consensus_at_trigger
    \/ mon_consensus_at_success
    \/ mon_consensus_no_status
    \/ mon_interrupt

MonitorSpec == MonitorInit /\ [][MonitorNext]_vars

(***************************************************************************)
(* The planner and the builder on their own: main from the height read to  *)
(* the written proposal                                                    *)
(***************************************************************************)
\* heights main has read when it calls get_config_from_user
PlanHeights == (1..MaxPlanHeight) \cup {1000}

\* the states in which main calls get_config_from_user
PlanInit ==
    /\ interactive \in BOOLEAN
    /\ verbose = FALSE
    /\ arg_address = "Aarg"
    /\ stage = "HeightRead"
    /\ cli_ok = TRUE
    /\ exit_status = 0 - 1
    /\ abort_cause = ""
    /\ address = "Aarg"
    /\ initialized = TRUE
    /\ current_height \in PlanHeights
    /\ config = DEFAULT_CONFIG
    /\ stop_vote_height = 0
    /\ trigger_height = 0
    /\ block_num_height = 0
    /\ proposal = NoProposal
    /\ pid = NoneStr
    /\ txid = NoneStr
    /\ balance = NoBalance
    /\ tokens = 0
    /\ vote_txid = NoneStr
    /\ voting_amount = 0
    /\ n_propose = 0
    /\ n_vote = 0
    /\ cmds = <<"status">>
    /\ call = NoCall
    /\ MonitorIdle

PlanNext ==
    \/ main_get_config
    \/ main_create_proposal

PlanSpec == PlanInit /\ [][PlanNext]_vars

(***************************************************************************)
(* The readers of the chain height: main at lines 602-607 and the monitor  *)
(* loop                                                                    *)
(***************************************************************************)
\* the states in which main calls get_current_height
HeightInit ==
    /\ interactive \in BOOLEAN
    /\ verbose = FALSE
    /\ arg_address = "Aarg"
    /\ stage = "GovernanceChecked"
    /\ cli_ok = TRUE
    /\ exit_status = 0 - 1
    /\ abort_cause = ""
    /\ address = "Aarg"
    /\ initialized \in BOOLEAN
    /\ initialized \/ interactive
    /\ current_height = NoHeight
    /\ config = DEFAULT_CONFIG
    /\ stop_vote_height = 0
    /\ trigger_height = 0
    /\ block_num_height = 0
    /\ proposal = NoProposal
    /\ pid = NoneStr
    /\ txid = NoneStr
    /\ balance = NoBalance
    /\ tokens = 0
    /\ vote_txid = NoneStr
    /\ voting_amount = 0
    /\ n_propose = 0
    /\ n_vote = 0
    /\ cmds = <<"govern_query">>
    /\ call = NoCall
    /\ MonitorIdle

HeightNext ==
    \/ main_get_current_height
    \/ main_get_config
    \/ mon_get_current_height
    \/ mon_get_proposal_status
    \/ mon_consensus_at_trigger
    \/ mon_consensus_at_success
    \/ mon_consensus_no_status
    \/ mon_interrupt

HeightSpec == (HeightInit \/ MonitorInit) /\ [][HeightNext]_vars

(***************************************************************************)
(* Functions applied on their own, to every input, in the states in which  *)
(* the monitor loop is entered; call records the arguments and the result  *)
(***************************************************************************)
\* texts the CLI prints for the commands of the program
CallOuts ==
    VersionOuts \cup AccountOuts \cup BalanceOuts \cup VoteOuts
    \cup StatusOuts(0..MaxChainHeight, {"x"}, {"x"})

call_run_command ==
    /\ call = NoCall
    /\ \E p \in Procs(CallOuts) :
          call' = [fn |-> "run_command", p |-> p, ret |-> run_command(p)]
    /\ UNCHANGED <<argVars, stage, cli_ok, exit_status, abort_cause, address,
                   initialized, current_height, planVars, proposal, pid, txid,
                   balance, tokens, vote_txid, voting_amount, n_propose,
                   n_vote, cmds, monVars>>

\* the call at line 511: pid and txid are the loop's, p and ptx what the
\* proposal query and the tx query print
call_get_proposal_status ==
    /\ call = NoCall
    /\ \E p \in Procs(ProposalOuts(ProposalData(FALSE))),
          ptx \in Procs(TxJsonOuts(ProposalData(FALSE))) :
          call' = [fn |-> "get_proposal_status", pid |-> mon_pid,
                   txid |-> mon_txid, p |-> p, ptx |-> ptx,
                   ret |-> get_proposal_status(mon_txid, p, ptx)]
    /\ UNCHANGED <<argVars, stage, cli_ok, exit_status, abort_cause, address,
                   initialized, current_height, planVars, proposal, pid, txid,
                   balance, tokens, vote_txid, voting_amount, n_propose,
                   n_vote, cmds, monVars>>

CallNext ==
    \/ call_run_command
    \/ call_get_proposal_status

CallSpec == MonitorInit /\ [][CallNext]_vars

(***************************************************************************)
(* Properties of the monitor loop (checked under MonitorSpec)              *)
(***************************************************************************)
\* the command c is among the commands seq
Issued(c, seq) == \E i \in 1..Len(seq) : seq[i] = c
IsSuccess(st) == st # "" /\ st # NonString /\ lower(st) \in TerminalSuccess
IsFailure(st) == st # "" /\ st # NonString /\ lower(st) \in TerminalFailure
FailureOutcome(st) == IF lower(st) = "rejected" THEN "Rejected" ELSE "Expired"
AtBoundary == mon = "Polling" /\ pc = "get_current_height"

\* C1 as stated: from the first iteration whose height read is >=
\* trigger_height, the loop has ended once 20 further iterations are over.
\* checks_after_trigger + uncounted is (a lower bound of) the number of
\* iterations completed since that first iteration, itself included.
C1_Original ==
    ~(AtBoundary /\ checks_after_trigger + uncounted >= max_checks_after_trigger + 1)

\* C1 as amended: only iterations that reach the post-trigger check count.
\* The counter never passes 20, and the iteration that brings it to 20 ends
\* the loop, in ConfirmedSuccess or MaxChecksExhausted (UserCancelled if the
\* interrupt comes first).
C1_BoundedCountedChecks ==
    /\ checks_after_trigger <= max_checks_after_trigger
    /\ checks_after_trigger = max_checks_after_trigger =>
          \/ mon = "Polling" /\ pc = "consensus_at_trigger"
          \/ mon \in {"ConfirmedSuccess", "MaxChecksExhausted", "UserCancelled"}

C1_Witness ==
    /\ mon = "MaxChecksExhausted"
    /\ checks_after_trigger = max_checks_after_trigger
    /\ uncounted > 0

\* C2: when all earlier polls were calm (a non-terminal status below the
\* trigger height) and the current poll reports a terminal-success status
\* below the trigger height, a consensus check that returns tdpos ends the
\* loop in ConfirmedSuccess on this very poll.
C2_SuccessOnPollK ==
    [][(/\ Polling("consensus_at_success")
        /\ calm_polls >= 0
        /\ IsSuccess(status)
        /\ last_height < mon_trigger_height
        /\ consensus'
        /\ ~interrupted')
       => (mon' = "ConfirmedSuccess" /\ calm_polls' = calm_polls /\ status' = status)]_vars

\* pending, pending, completed_success with consensus tdpos on the third poll
C2_Witness ==
    /\ mon = "ConfirmedSuccess"
    /\ calm_polls = 2
    /\ status = "completed_success"
    /\ last_height < mon_trigger_height
    /\ consensus

C4_Original ==
    (IsFailure(status) /\ ~interrupted) =>
        \/ mon \in {"Rejected", "Expired"}
        \/ mon = "Polling" /\ pc = "consensus_at_trigger"

\* C4 as amended: such an iteration always ends the loop.  Below the trigger
\* height it ends in Rejected/Expired at once; at or above it the
\* post-trigger check comes first and the iteration ends in ConfirmedSuccess
\* if consensus is tdpos, in MaxChecksExhausted if this was check 20, and in
\* Rejected/Expired otherwise.
C4_FailureEndsLoop ==
    [][/\ (mon = "Polling" /\ ~IsFailure(status) /\ IsFailure(status')) =>
             IF last_height' < mon_trigger_height'
             THEN mon' = FailureOutcome(status')
             ELSE mon' = "Polling" /\ pc' = "consensus_at_trigger"
       /\ (mon = "Polling" /\ IsFailure(status)) =>
             /\ pc = "consensus_at_trigger"
             /\ last_height >= mon_trigger_height
             /\ mon' = IF interrupted' THEN "UserCancelled"
                       ELSE IF consensus' THEN "ConfirmedSuccess"
                       ELSE IF checks_after_trigger >= max_checks_after_trigger
                            THEN "MaxChecksExhausted"
                       ELSE FailureOutcome(status)]_vars

C4_Witness ==
    /\ mon = "Expired"
    /\ status = "EXPIRED"
    /\ last_height >= mon_trigger_height
    /\ checks_after_trigger > 0

\* C5: below the trigger height a terminal-success status leads to the
\* consensus re-check and to nothing else; the re-check ends the loop in
\* ConfirmedSuccess if it returns tdpos and otherwise the loop goes on
\* polling, with the post-trigger counter unchanged.
C5_SuccessIsRechecked ==
    [][/\ (/\ Polling("get_proposal_status")
           /\ IsSuccess(status')
           /\ last_height' < mon_trigger_height') =>
             /\ mon' = "Polling"
             /\ pc' = "consensus_at_success"
             /\ checks_after_trigger' = checks_after_trigger
       /\ (/\ Polling("consensus_at_success")
           /\ last_height < mon_trigger_height
           /\ ~interrupted') =>
             /\ cmds' = <<"status">>
             /\ checks_after_trigger' = checks_after_trigger
             /\ IF consensus'
                THEN mon' = "ConfirmedSuccess"
                ELSE mon' = "Polling" /\ pc' = "get_current_height"]_vars

C5_Witness ==
    /\ mon = "ConfirmedSuccess"
    /\ status = "Passed"
    /\ last_height < mon_trigger_height
    /\ checks_after_trigger = 0

ReadOnlyQueries == {"status", "proposal_query", "tx_query"}
InLoop == stage = "Monitoring" /\ mon = "Polling"
HeightReadStep == Polling("get_current_height") /\ ~interrupted'
Retries ==
    /\ mon' = "Polling"
    /\ pc' = "get_current_height"
    /\ cmds' = <<"status">>
    /\ last_height' = last_height
    /\ checks_after_trigger' = checks_after_trigger

\* C13: every command a step of the loop issues is a status, proposal query
\* or tx query; no step of the loop issues a propose or vote command, and
\* none changes the proposal or the plan (current_height, configuration and
\* the three planned heights) that main holds.
C13_LoopOnlyReads ==
    [][InLoop =>
          /\ \A i \in 1..Len(cmds') : cmds'[i] \in ReadOnlyQueries
          /\ n_propose' = n_propose
          /\ n_vote' = n_vote
          /\ proposal' = proposal
          /\ current_height' = current_height
          /\ config' = config
          /\ stop_vote_height' = stop_vote_height
          /\ trigger_height' = trigger_height
          /\ block_num_height' = block_num_height]_vars

\* the loop has run past the trigger height and ended, with main's plan as
\* it was at loop entry
C13_Witness ==
    /\ mon = "Rejected"
    /\ last_height > current_height
    /\ checks_after_trigger > 0
    /\ proposal.written
    /\ proposal.trigger_height = trigger_height
    /\ n_propose = 1

\* C14 as stated: an iteration whose height read fails (the command fails, or
\* no height can be extracted from its output) issues nothing but the status
\* command and goes back to the height read, the loop still running and
\* last_height and checks_after_trigger unchanged.
C14_Claim ==
    [][(HeightReadStep /\ height_read'.tag \in {"none", "raise"}) => Retries]_vars

\* C15 as stated: no response makes an extraction raise, and none ends the
\* monitor loop with an exception.
C15_Claim == height_read.tag # "raise" /\ mon # "Error"

\* C18: when verbose mode is off and the height read is the height of the
\* last iteration, the iteration issues only the status command of the
\* height read and goes back to the height read with last_height and
\* checks_after_trigger unchanged; in verbose mode every height read that
\* returns a height (other than 0) is followed by the proposal query, the
\* same height or not.
C18_SkipUnchanged ==
    [][/\ (HeightReadStep /\ ~verbose /\ height_read'.same) => Retries
       /\ (HeightReadStep /\ verbose /\ height_read'.tag = "int"
              /\ height_read'.v # 0) =>
             /\ mon' = "Polling"
             /\ pc' = "get_proposal_status"
             /\ last_height' = height_read'.v
       /\ (Polling("get_proposal_status") /\ ~interrupted') =>
             /\ Len(cmds') >= 1
             /\ cmds'[1] = "proposal_query"]_vars

\* a skipped iteration after one completed poll
C18_Witness ==
    /\ ~verbose
    /\ height_read.same
    /\ AtBoundary
    /\ calm_polls = 1
    /\ cmds = <<"status">>

\* C21: checks_after_trigger stays within 0..20; a step of the loop leaves
\* it alone or adds 1; it adds 1 only in the step after the proposal query,
\* once per iteration, when the height read of that iteration is at or above
\* trigger_height, and the post-trigger consensus check follows; when that
\* check finds no match at count 20 the loop ends in MaxChecksExhausted.
C21_CounterDiscipline ==
    /\ [](checks_after_trigger >= 0
          /\ checks_after_trigger <= max_checks_after_trigger)
    /\ [][/\ \/ checks_after_trigger' = checks_after_trigger
             \/ checks_after_trigger' = checks_after_trigger + 1
          /\ checks_after_trigger' = checks_after_trigger + 1 =>
                /\ Polling("get_proposal_status")
                /\ height_read.tag = "int"
                /\ height_read.v = last_height
                /\ height_read.v >= mon_trigger_height'
                /\ mon' = "Polling"
                /\ pc' = "consensus_at_trigger"
          /\ (/\ Polling("consensus_at_trigger")
              /\ checks_after_trigger = max_checks_after_trigger
              /\ ~interrupted'
              /\ ~consensus') => mon' = "MaxChecksExhausted"]_vars

\* the twentieth counted check found no match
C21_Witness ==
    /\ mon = "MaxChecksExhausted"
    /\ checks_after_trigger = max_checks_after_trigger
    /\ height_read.v >= mon_trigger_height
    /\ ~consensus

ConsensusCheckPcs ==
    {"consensus_at_trigger", "consensus_at_success", "consensus_no_status"}

\* C22: the loop ends in ConfirmedSuccess only by a step that is a consensus
\* check returning a match; a step that reads the height or the proposal
\* status never does, whatever the status and the height.  A consensus check
\* matches only if its status query succeeded and printed a status
\* document; a check without a match never gives ConfirmedSuccess.
C22_SuccessNeedsMatch ==
    /\ [](mon = "ConfirmedSuccess" => (consensus /\ consensus_parsed))
    /\ [](consensus => consensus_parsed)
    /\ [][(mon = "Polling" /\ mon' = "ConfirmedSuccess") =>
             /\ pc \in ConsensusCheckPcs
             /\ cmds' = <<"status">>
             /\ consensus']_vars
    /\ [][(mon = "Polling" /\ pc \in ConsensusCheckPcs /\ ~consensus') =>
             mon' # "ConfirmedSuccess"]_vars

\* a terminal-success status at a height past the trigger, a post-trigger
\* check whose status query gave no document, and the loop still running
C22_Witness ==
    /\ Polling("consensus_at_success")
    /\ IsSuccess(status)
    /\ last_height >= mon_trigger_height
    /\ checks_after_trigger > 0
    /\ ~consensus_parsed
    /\ ~consensus

(***************************************************************************)
(* Properties of the orchestrator (checked under Spec)                     *)
(***************************************************************************)
StageRank(st) ==
    CASE st = "Start" -> 0
      [] st = "AddressResolved" -> 1
      [] st = "GovernanceChecked" -> 2
      [] st = "HeightRead" -> 3
      [] st = "Planned" -> 4
      [] st = "ProposalBuilt" -> 5
      [] st = "Submitted" -> 6
      [] st = "TokensQueried" -> 7
      [] st = "Voted" -> 8
      [] st = "Monitoring" -> 9
      [] st = "Done" -> 10
      [] OTHER -> 0 - 1

NonEmptyId(x) == x # NoneStr /\ x # ""

\* C6: a stage is entered only from its predecessor (Voted may be skipped);
\* the propose command needs the height read and the document written, the
\* vote command needs the propose command to have returned, monitoring
\* needs the submission.
C6_StageOrder ==
    [][/\ stage' # stage =>
             \/ stage' = "Aborted"
             \/ StageRank(stage') = StageRank(stage) + 1
             \/ stage = "TokensQueried" /\ stage' = "Monitoring"
       /\ Issued("propose", cmds') =>
             /\ stage = "ProposalBuilt"
             /\ current_height >= 1
             /\ proposal.written
             /\ n_propose = 0
       /\ Issued("vote", cmds') =>
             /\ stage = "TokensQueried"
             /\ n_propose = 1
       /\ (stage' = "Monitoring" /\ stage # "Monitoring") =>
             /\ n_propose = 1
             /\ StageRank(stage) >= StageRank("TokensQueried")]_vars

C6_Witness ==
    /\ stage = "Done"
    /\ exit_status = 0
    /\ n_propose = 1
    /\ n_vote = 1

\* C7 as stated: past the Submitted stage the submission result holds a
\* non-empty proposal id or a non-empty transaction id.
C7_Claim ==
    StageRank(stage) >= StageRank("TokensQueried") =>
        NonEmptyId(pid) \/ NonEmptyId(txid)

\* C8 as stated: with a computed balance of zero no vote command is issued
\* and the next stage is Monitoring.
C8_Original ==
    [][(stage = "TokensQueried" /\ tokens = 0) =>
          (~Issued("vote", cmds') /\ n_vote' = n_vote /\ stage' = "Monitoring")]_vars

\* C8 as amended: with a computed balance of zero no vote command is
\* issued; the next stage is Monitoring, unless the run is interactive and
\* the user declines to go on, which ends the run with status 1.
C8_NoVoteOnZero ==
    [][(stage = "TokensQueried" /\ tokens = 0) =>
          /\ ~Issued("vote", cmds')
          /\ n_vote' = n_vote
          /\ \/ stage' = "Monitoring" /\ mon' = "Polling"
             \/ /\ interactive
                /\ stage' = "Aborted"
                /\ exit_status' = 1
                /\ abort_cause' = "monitoring_declined"]_vars

C8_Witness ==
    /\ stage = "Monitoring"
    /\ balance.parsed
    /\ balance.total > 0
    /\ tokens = 0
    /\ n_vote = 0

ListedAbortCauses ==
    {"cli_unavailable", "governance_absent", "height_unreadable",
     "build_failed", "submit_failed"}
ListedExits ==
    {"ConfirmedSuccess", "Rejected", "Expired", "MaxChecksExhausted",
     "UserCancelled"}

ExitStatusRule(causes) ==
    /\ exit_status \in {0 - 1, 0, 1}
    /\ exit_status = 1 <=> stage = "Aborted"
    /\ exit_status = 0 <=> stage = "Done"
    /\ stage = "Aborted" => abort_cause \in causes
    /\ abort_cause = "governance_absent" => ~interactive
    /\ mon \in ListedExits => exit_status = 0

\* C9 as stated: the exit status is non-zero exactly when the run aborts for
\* one of the listed reasons, and 0 when the loop is left through one of the
\* five listed exits.
C9_Original == ExitStatusRule(ListedAbortCauses)

\* C9 as amended: the reasons are the listed ones and, in interactive mode
\* with no available tokens, the user declining to go on to monitoring.
C9_ExitStatus ==
    /\ ExitStatusRule(ListedAbortCauses \cup {"monitoring_declined"})
    /\ abort_cause = "monitoring_declined" => interactive /\ tokens <= 0

\* reaches the loop although the governance check failed, and leaves it
C9_Witness ==
    /\ interactive
    /\ ~initialized
    /\ mon = "MaxChecksExhausted"
    /\ exit_status = 0

Max0(n) == IF n > 0 THEN n ELSE 0
RawAvailable == balance.total - balance.ordinary - balance.tdpos

\* C10 as stated: get_governance_tokens returns
\* max(0, total - locked_ordinary - locked_tdpos), never a negative number.
C10_Original ==
    StageRank(stage) >= StageRank("TokensQueried") =>
        tokens = Max0(RawAvailable) /\ tokens >= 0

\* C10 as amended: get_governance_tokens returns the difference unclamped
\* (0 when the response cannot be parsed); the voting stage is entered, and
\* a vote command issued, only with a positive balance.
C10_UnclampedButGuarded ==
    /\ StageRank(stage) >= StageRank("TokensQueried") => tokens = RawAvailable
    /\ stage = "Voted" => tokens > 0
    /\ n_vote > 0 => tokens > 0

C10_Witness ==
    /\ tokens < 0
    /\ stage = "Monitoring"
    /\ n_vote = 0

\* C20: the loop is handed the vote transaction id when the vote step
\* returned one, and the submission transaction id (None if there is none)
\* otherwise; a vote id exists only if a vote command was issued, and then
\* the submission id is not the one handed over.
C20_MonitorTxid ==
    /\ mon # "NotStarted" =>
          /\ mon_txid = IF vote_txid # NoneStr THEN vote_txid ELSE txid
          /\ vote_txid # NoneStr => (mon_txid = vote_txid /\ mon_txid # txid)
          /\ mon_pid = pid
    /\ vote_txid # NoneStr => n_vote = 1

C20_Witness ==
    /\ stage = "Monitoring"
    /\ txid = "ab12"
    /\ vote_txid = "cd34"
    /\ mon_txid = "cd34"

\* how many of the commands seq are the command c
Times(c, seq) == Cardinality({i \in 1..Len(seq) : seq[i] = c})

\* C23: over a run at most one propose command and at most one vote command
\* are issued; a step issues at most one of each, the counts go up by what
\* it issues, and nothing follows an aborted run, so a failed propose is not
\* tried again; a vote command is issued only from the TokensQueried stage,
\* which is reached only when the one propose command returned output with
\* exit status zero, and the run goes on to monitoring whether the vote
\* succeeded or not.
C23_AtMostOnce ==
    /\ [](n_propose \in {0, 1} /\ n_vote \in {0, 1})
    /\ [](n_vote = 1 => (n_propose = 1 /\ stage \in {"Voted", "Monitoring", "Done"}))
    /\ [](StageRank(stage) >= StageRank("Submitted") => n_propose = 1)
    /\ [][/\ n_propose' = n_propose + Times("propose", cmds')
           /\ n_vote' = n_vote + Times("vote", cmds')
           /\ Issued("vote", cmds') =>
                 /\ stage = "TokensQueried"
                 /\ stage' = "Voted"
                 /\ n_propose = 1
           /\ stage # "Aborted"]_vars

\* the vote command failed and the run went on without another vote
C23_Witness ==
    /\ stage = "Done"
    /\ n_propose = 1
    /\ n_vote = 1
    /\ vote_txid = NoneStr

\* C24: whenever a vote command is issued, its --amount is at least 1 and
\* at most the available tokens, for every positive balance and every
\* amount typed in interactive mode.
C24_Claim ==
    n_vote > 0 => (1 <= voting_amount /\ voting_amount <= tokens)

(***************************************************************************)
(* Properties of the planner (checked under PlanSpec)                      *)
(***************************************************************************)
\* get_config_from_user has returned and its result is in use
PlanInUse == stage \in {"Planned", "ProposalBuilt"}

\* C11: the plan is stop_vote_height = current_height + vote_duration_blocks,
\* trigger_height = stop_vote_height + trigger_buffer and block_num_height =
\* trigger_height + block_num_buffer, exactly (height 1000 with 40/10/5 gives
\* 1040/1050/1055); being these sums, the plan is determined by the height
\* and the configuration, and the proposal is built from this plan.
C11_PlanArithmetic ==
    /\ PlanInUse =>
          /\ stop_vote_height = current_height + config.vote_duration_blocks
          /\ trigger_height = stop_vote_height + config.trigger_buffer
          /\ block_num_height = trigger_height + config.block_num_buffer
    /\ (PlanInUse /\ current_height = 1000 /\ config = DEFAULT_CONFIG) =>
          /\ stop_vote_height = 1040
          /\ trigger_height = 1050
          /\ block_num_height = 1055
    /\ proposal.written =>
          /\ proposal.stop_vote_height = stop_vote_height
          /\ proposal.trigger_height = trigger_height
          /\ proposal.block_num = block_num_height

C11_Witness ==
    /\ stage = "ProposalBuilt"
    /\ current_height = 1000
    /\ config = DEFAULT_CONFIG
    /\ proposal.trigger_height = 1050
    /\ proposal.block_num = 1055

\* C12: in every plan current_height <= stop_vote_height <= trigger_height
\* <= block_num_height, and each step is strict when its duration or buffer
\* is positive.
C12_PlanOrdered ==
    PlanInUse =>
        /\ current_height <= stop_vote_height
        /\ stop_vote_height <= trigger_height
        /\ trigger_height <= block_num_height
        /\ config.vote_duration_blocks > 0 => current_height < stop_vote_height
        /\ config.trigger_buffer > 0 => stop_vote_height < trigger_height
        /\ config.block_num_buffer > 0 => trigger_height < block_num_height

\* an interactive override with a duration of 0 and a buffer of 1
C12_Witness ==
    /\ PlanInUse
    /\ interactive
    /\ config.vote_duration_blocks = 0
    /\ stop_vote_height = current_height
    /\ config.trigger_buffer = 1
    /\ stop_vote_height < trigger_height

\* C16 as stated: the configuration in use has four positive members and a
\* min_vote_percent within 1..100.
C16_Claim ==
    PlanInUse =>
        /\ config.vote_duration_blocks > 0
        /\ config.trigger_buffer > 0
        /\ config.block_num_buffer > 0
        /\ config.min_vote_percent >= 1
        /\ config.min_vote_percent <= 100

(***************************************************************************)
(* Properties of functions (checked under CallSpec)                        *)
(***************************************************************************)
\* the process ran and exited with status zero
ExitedZero(p) == ~p.exc /\ p.returncode = 0

\* C17: run_command returns the trimmed stdout exactly when the process
\* exits with status zero, and None when it exits with another status or
\* cannot be run; every call returns.
C17_RunCommand ==
    call.fn = "run_command" =>
        /\ call.ret # None <=> ExitedZero(call.p)
        /\ ExitedZero(call.p) =>
              call.ret = IF call.p.stdout.kind = "blank" THEN EmptyOut
                         ELSE call.p.stdout
        /\ ~ExitedZero(call.p) => call.ret = None

\* a non-zero exit whose stdout holds a status document
C17_Witness ==
    /\ call.fn = "run_command"
    /\ ~call.p.exc
    /\ call.p.returncode = 1
    /\ call.p.stdout.kind = "status"
    /\ call.ret = None

\* the proposal query printed a "contract response: " payload that decodes
DirectPayload(p) == ExitedZero(p) /\ p.stdout.kind = "marker_json"
\* the tx query printed JSON with a txOutputsExt entry of bucket "proposal"
\* and key pid whose value decodes
MatchingEntry(p) == ExitedZero(p) /\ p.stdout.kind = "match"

\* the rule of get_proposal_status, with expected the transaction it is to
\* query when it does
StatusLookupRule(expected) ==
    call.fn = "get_proposal_status" =>
        /\ Issued("proposal_query", call.ret.cmds)
        /\ Issued("tx_query", call.ret.cmds) <=>
              (~DirectPayload(call.p) /\ call.txid # NoneStr)
        /\ call.ret.queried =
              IF Issued("tx_query", call.ret.cmds) THEN expected ELSE NoneStr
        /\ call.ret.data =
              IF DirectPayload(call.p) THEN call.p.stdout.data
              ELSE IF Issued("tx_query", call.ret.cmds) /\ MatchingEntry(call.ptx)
              THEN call.ptx.stdout.data
              ELSE NoData

\* C19 as stated: the transaction queried is the submission transaction.
C19_Original == StatusLookupRule(txid)

\* C19 as amended: the tx query is issued only when the proposal query gives
\* no decodable payload and the loop was handed a transaction id; it queries
\* that transaction, which is the vote transaction when the vote produced an
\* id and the submission transaction otherwise; the result is the value of
\* the matching entry of that transaction, and none when there is no such
\* entry or no tx query.
C19_StatusLookup ==
    /\ StatusLookupRule(IF vote_txid # NoneStr THEN vote_txid ELSE txid)
    /\ call.fn = "get_proposal_status" =>
          call.txid = IF vote_txid # NoneStr THEN vote_txid ELSE txid

\* the status comes from the vote transaction although a submission
\* transaction id exists
C19_Witness ==
    /\ call.fn = "get_proposal_status"
    /\ txid # NoneStr
    /\ vote_txid # NoneStr
    /\ ~DirectPayload(call.p)
    /\ call.ret.queried = vote_txid
    /\ call.ret.data.shape = "dict"

(***************************************************************************)
(* Properties of the height readers (checked under HeightSpec)             *)
(***************************************************************************)
HZero == [tag |-> "int", v |-> 0]

\* the loop's state with the history of the last read left out
Forget(s) == [s EXCEPT !.read = NoRead]

\* C25: a status response that parses to height 0 is handled as a failed
\* read.  In main the step out of the height read either stores a height
\* of at least 1 or aborts with exit status 1 and leaves the plan untouched,
\* so the planner runs only on a height of at least 1.  In the loop a read
\* of 0 leaves the loop's state as a read of None does: it reads the height
\* again, issues nothing but the status query, and does not count a check;
\* so the height the loop keeps is at least 1.
C25_ZeroHeight ==
    /\ [][stage = "GovernanceChecked" =>
             \/ /\ stage' = "HeightRead"
                /\ current_height' >= 1
                /\ UNCHANGED <<exit_status, planVars>>
             \/ /\ stage' = "Aborted"
                /\ exit_status' = 1
                /\ abort_cause' = "height_unreadable"
                /\ UNCHANGED <<current_height, planVars>>]_vars
    /\ [](stage \in {"HeightRead", "Planned", "Monitoring", "Done"} =>
             current_height >= 1)
    /\ [](stage = "Planned" => stop_vote_height >= current_height)
    /\ [](last_height # NoHeight => last_height >= 1)
    /\ [](Polling("get_current_height") =>
             Forget(after_height(MonState, HZero, verbose))
                = Forget(after_height(MonState, HNone, verbose)))
    /\ [][(HeightReadStep /\ height_read' = Read(MonState, HZero)) =>
             Retries]_vars

\* the loop has read a height of at least 1, then 0, and is about to read
\* the height again with the earlier height kept
C25_Witness ==
    /\ Polling("get_current_height")
    /\ height_read.tag = "int"
    /\ height_read.v = 0
    /\ last_height >= 1
    /\ ~interrupted

====
